---- MODULE Spec2Model ----
(***************************************************************************)
(* files2image: file_to_image packs a file, prefixed by an 8-byte          *)
(* big-endian length header, into the RGB channels of a PNG image;         *)
(* image_to_file reads the pixels back and restores the file.              *)
(*                                                                         *)
(* A byte is a number in 0..255, a byte string a sequence of bytes.  A     *)
(* file is <<>> when it does not exist and <<content>> when it does.  An   *)
(* image is a record [width, height, px] with px a function from the       *)
(* coordinates <<x, y>> to RGB triples.  PNG is lossless, so the image     *)
(* file holds the image that was saved.                                    *)
(*                                                                         *)
(* A Python int that can exceed the integers TLC computes with (the size   *)
(* parsed from a header, and what is computed from it) is held exactly, as *)
(* its digits in base LimbBase = 10^6, most significant first and without  *)
(* leading zeros: 0 is <<>>, 2 is <<2>>, 33488896 is <<33, 488896>>.       *)
(***************************************************************************)
EXTENDS Integers, Sequences, FiniteSets, TLC

(* ---------------------------- bounds ----------------------------------- *)

\* Payloads over ByteVals have at most MaxShortLen bytes.
MaxShortLen == 2
\* Payloads over BinVals have at most MaxLen bytes.
MaxLen == 11
\* Images handed to image_to_file that file_to_image did not write have at
\* most MaxGridPixels pixels and declare a length of at most MaxDeclared.
MaxGridPixels == 4
MaxDeclared == 5
ByteVals == {0, 65, 66, 255}
BinVals == {0, 255}

(* ------------------------- program constants --------------------------- *)

HeaderLen == 8
BytesPerPixel == 3

(* ------------------------- Python / PIL helpers ------------------------ *)

Min(a, b) == IF a < b THEN a ELSE b

\* n.to_bytes(length, 'big')
RECURSIVE ToBytesBig(_, _)
ToBytesBig(n, length) ==
    IF length = 0 THEN <<>>
    ELSE Append(ToBytesBig(n \div 256, length - 1), n % 256)

LimbBase == 1000 * 1000

\* The Python int k, for a k >= 0 that TLC can hold.
RECURSIVE Limbs(_)
Limbs(k) ==
    IF k = 0 THEN <<>> ELSE Append(Limbs(k \div LimbBase), k % LimbBase)

\* n * m + a on Python ints, for 1 <= m <= 256 and a >= 0 that TLC can hold.
RECURSIVE BigMulAdd(_, _, _)
BigMulAdd(n, m, a) ==
    IF n = <<>> THEN Limbs(a)
    ELSE LET t == n[Len(n)] * m + a
         IN  Append(BigMulAdd(SubSeq(n, 1, Len(n) - 1), m, t \div LimbBase),
                    t % LimbBase)

\* n + a on Python ints
BigAdd(n, a) == BigMulAdd(n, 1, a)

\* a < b on Python ints
BigLess(a, b) ==
    \/ Len(a) < Len(b)
    \/ /\ Len(a) = Len(b)
       /\ \E k \in 1..Len(a) :
            a[k] < b[k] /\ \A j \in 1..(k - 1) : a[j] = b[j]

\* The number TLC holds for the Python int n, when n is small enough.
RECURSIVE BigToInt(_)
BigToInt(n) ==
    IF n = <<>> THEN 0
    ELSE BigToInt(SubSeq(n, 1, Len(n) - 1)) * LimbBase + n[Len(n)]

\* int.from_bytes(s, 'big')
RECURSIVE FromBytesAcc(_, _, _)
FromBytesAcc(s, k, acc) ==
    IF k > Len(s) THEN acc
    ELSE FromBytesAcc(s, k + 1, BigMulAdd(acc, 256, s[k]))

FromBytesBig(s) == FromBytesAcc(s, 1, <<>>)

\* math.ceil(a / b) for a >= 0, b > 0
CeilDiv(a, b) == (a + b - 1) \div b

\* int(math.sqrt(n))
IntSqrt(n) == CHOOSE r \in 0..n : r * r <= n /\ (r + 1) * (r + 1) > n

\* divmod(a, b)
DivMod(a, b) == <<a \div b, a % b>>

\* s[a:b] of a Python sequence (0-based, end exclusive, clamped to len(s))
Slice(s, a, b) == SubSeq(s, a + 1, Min(b, Len(s)))

\* A slice index that is a Python int, clamped to the length as slicing does.
ClampIndex(n, len) == IF BigLess(Limbs(len), n) THEN len ELSE BigToInt(n)

\* next(byte_iterator, 0) when the iterator has yielded pos items of data
NextByte(data, pos) == IF pos < Len(data) THEN data[pos + 1] ELSE 0

Coords(w, h) == (0..(w - 1)) \X (0..(h - 1))

\* Image.new('RGB', (w, h), color='black')
NewImage(w, h) ==
    [width |-> w, height |-> h, px |-> [c \in Coords(w, h) |-> <<0, 0, 0>>]]

\* PixelAccess raises IndexError unless the coordinate is inside the image
InImage(img, x, y) == x >= 0 /\ x < img.width /\ y >= 0 /\ y < img.height

\* pixels[x, y] = rgb
PutPixel(img, x, y, rgb) == [img EXCEPT !.px[<<x, y>>] = rgb]

\* img.getdata(): the pixels row by row, each row left to right
GetData(img) ==
    [p \in 1..(img.width * img.height) |->
        img.px[<<(p - 1) % img.width, (p - 1) \div img.width>>]]

\* extracted_bytes after extending it with every pixel of getdata()
ExtractBytes(img) ==
    LET data == GetData(img)
    IN  [k \in 1..(BytesPerPixel * Len(data)) |->
            data[((k - 1) \div BytesPerPixel) + 1][((k - 1) % BytesPerPixel) + 1]]

(* --------------------------- file_to_image ----------------------------- *)

\* The header in little-endian byte order.
FrameOf_little(data) ==
    [k \in 1..HeaderLen |-> ToBytesBig(Len(data), HeaderLen)[HeaderLen + 1 - k]] \o data

\* file_size_bytes + file_data
FrameOf(data) == ToBytesBig(Len(data), HeaderLen) \o data

NumPixelsNeeded(data) == CeilDiv(Len(data), BytesPerPixel)

ImageWidth(n) == IntSqrt(n) + 1

\* The height rounded down.
ImageHeight_floor(n, w) == n \div w

ImageHeight(n, w) == CeilDiv(n, w)

\* x, y = divmod(i, width)
PixelCoord(idx, w) == DivMod(idx, w)

(* --------------------------- image_to_file ----------------------------- *)

HeaderTooShort(bytes) == Len(bytes) < HeaderLen

\* No completeness check at all.
PayloadIncomplete_never(bytes, end) == FALSE

\* The completeness check one byte short.
PayloadIncomplete_offbyone(bytes, end) == BigLess(Limbs(Len(bytes) + 1), end)

PayloadIncomplete(bytes, end) == BigLess(Limbs(Len(bytes)), end)

\* The payload with its trailing zero bytes stripped.
RECURSIVE StripZeros(_)
StripZeros(s) ==
    IF s # <<>> /\ s[Len(s)] = 0 THEN StripZeros(SubSeq(s, 1, Len(s) - 1)) ELSE s

PayloadSlice_strip(bytes, start, end) ==
    StripZeros(Slice(bytes, start, ClampIndex(end, Len(bytes))))

PayloadSlice(bytes, start, end) ==
    Slice(bytes, start, ClampIndex(end, Len(bytes)))

(* ------------------------------ inputs --------------------------------- *)

NoFile == <<>>
File(c) == <<c>>
Exists(f) == f # <<>>
Content(f) == f[1]

SeqsUpTo(S, n) == UNION {[1..m -> S] : m \in 0..n}

Payloads == SeqsUpTo(ByteVals, MaxShortLen) \cup SeqsUpTo(BinVals, MaxLen)

\* Headers of images written by something else: a small declared length, or
\* a length beyond any image of the model.
Headers ==
    {ToBytesBig(l, HeaderLen) : l \in 0..MaxDeclared}
        \cup {<<0, 0, 0, 0, 1, 255, 0, 0>>}

\* The image of w x h pixels whose getdata() bytes are the first 3*w*h bytes
\* of bytes.
ImageOfBytes(w, h, bytes) ==
    [width |-> w, height |-> h,
     px |-> [c \in Coords(w, h) |->
                LET p == c[2] * w + c[1]
                IN  <<bytes[3 * p + 1], bytes[3 * p + 2], bytes[3 * p + 3]>>]]

Dims == {d \in (1..MaxGridPixels) \X (1..MaxGridPixels) : d[1] * d[2] <= MaxGridPixels}

ForeignImages ==
    UNION {
        LET cap == BytesPerPixel * d[1] * d[2]
        IN  IF cap <= HeaderLen
            THEN {ImageOfBytes(d[1], d[2], SubSeq(hd, 1, cap)) : hd \in Headers}
            ELSE {ImageOfBytes(d[1], d[2], hd \o tl) :
                    hd \in Headers, tl \in [1..(cap - HeaderLen) -> BinVals]}
        : d \in Dims}

\* test_content of main
TestContent ==
    <<84, 104, 105, 115, 32, 105, 115, 32, 97, 32, 116, 101, 115, 116, 32,
      102, 105, 108, 101, 46, 10, 73, 116, 32, 99, 111, 110, 116, 97, 105,
      110, 115, 32, 109, 117, 108, 116, 105, 112, 108, 101, 32, 108, 105,
      110, 101, 115, 32, 97, 110, 100, 32, 115, 111, 109, 101, 32, 115, 112,
      101, 99, 105, 97, 108, 32, 99, 104, 97, 114, 97, 99, 116, 101, 114,
      115, 58, 32, 33, 64, 35, 36, 37, 94, 38, 42, 40, 41, 0, 1, 2>>

(* ------------------------------- state --------------------------------- *)

VARIABLES
    pc,                 \* "idle", or the position inside the running call
    srcFile,            \* the file at file_path
    imageFile,          \* the file at output_image_path / image_path
    outFile,            \* the file at output_file_path
    encResult,          \* how file_to_image ended: "none" until it has
    decResult,          \* how image_to_file ended: "none" until it has
    file_data,          \* file_to_image locals
    data_to_encode,
    num_pixels_needed,
    pixels,
    byte_iterator,      \* items the iterator has yielded
    i,
    extracted_bytes,    \* image_to_file locals
    original_file_size,
    restored_data,      \* file_data of image_to_file
    mainPc,             \* "none" outside main, else main's position
    mainResult          \* how main's verification ended: "none" until it has

vars == <<pc, srcFile, imageFile, outFile, encResult, decResult, file_data,
          data_to_encode, num_pixels_needed, pixels, byte_iterator, i,
          extracted_bytes, original_file_size, restored_data, mainPc,
          mainResult>>

mainVars == <<mainPc, mainResult>>
encLocals == <<file_data, data_to_encode, num_pixels_needed, pixels,
               byte_iterator, i>>
decLocals == <<extracted_bytes, original_file_size, restored_data>>
files == <<srcFile, imageFile, outFile>>

width == pixels.width
height == pixels.height

Init ==
    /\ pc = "idle"
    /\ \/ srcFile \in {File(p) : p \in Payloads} /\ imageFile = NoFile
       \/ srcFile = NoFile /\ imageFile \in {File(g) : g \in ForeignImages}
       \/ srcFile = NoFile /\ imageFile = NoFile
    /\ outFile = NoFile
    /\ encResult = "none"
    /\ decResult = "none"
    /\ file_data = <<>>
    /\ data_to_encode = <<>>
    /\ num_pixels_needed = 0
    /\ pixels = NewImage(0, 0)
    /\ byte_iterator = 0
    /\ i = 0
    /\ extracted_bytes = <<>>
    /\ original_file_size = Limbs(0)
    /\ restored_data = <<>>
    /\ mainPc = "none"
    /\ mainResult = "none"

(* ----------------------- file_to_image, step by step ------------------- *)

\* Each function is called at most once, by main or directly; called
\* directly, image_to_file may also run alone on whatever image is there.

\* open(file_path, 'rb') raises FileNotFoundError: the handler prints.
EncNotFound ==
    /\ UNCHANGED mainVars
    /\ pc = "idle" /\ encResult = "none" /\ decResult = "none"
    /\ ~Exists(srcFile)
    /\ encResult' = "SourceUnavailable"
    /\ UNCHANGED <<pc, files, decResult, encLocals, decLocals>>

\* Read the file, build the frame, size and create the black image.
EncStart ==
    /\ UNCHANGED mainVars
    /\ pc = "idle" /\ encResult = "none" /\ decResult = "none"
    /\ Exists(srcFile)
    /\ LET data == Content(srcFile)
           frame == FrameOf(data)
           n == NumPixelsNeeded(frame)
           w == ImageWidth(n)
           h == ImageHeight(n, w)
       IN  /\ file_data' = data
           /\ data_to_encode' = frame
           /\ num_pixels_needed' = n
           /\ pixels' = NewImage(w, h)
    /\ byte_iterator' = 0
    /\ i' = 0
    /\ pc' = "enc_loop"
    /\ UNCHANGED <<files, encResult, decResult, decLocals>>

\* One iteration of the packing loop: three bytes go to pixel i.
EncPutPixel ==
    /\ UNCHANGED mainVars
    /\ pc = "enc_loop"
    /\ i < num_pixels_needed
    /\ LET r == NextByte(data_to_encode, byte_iterator)
           g == NextByte(data_to_encode, byte_iterator + 1)
           b == NextByte(data_to_encode, byte_iterator + 2)
           xy == PixelCoord(i, width)
       IN  /\ byte_iterator' = Min(byte_iterator + 3, Len(data_to_encode))
           /\ \/ /\ InImage(pixels, xy[1], xy[2])
                 /\ pixels' = PutPixel(pixels, xy[1], xy[2], <<r, g, b>>)
                 /\ i' = i + 1
                 /\ UNCHANGED <<pc, encResult>>
              \/ /\ ~InImage(pixels, xy[1], xy[2])
                 \* IndexError, caught by "except Exception": nothing is saved
                 /\ encResult' = "error"
                 /\ pc' = "idle"
                 /\ UNCHANGED <<pixels, i>>
    /\ UNCHANGED <<files, decResult, file_data, data_to_encode,
                   num_pixels_needed, decLocals>>

\* img.save(output_image_path, 'PNG')
EncSave ==
    /\ UNCHANGED mainVars
    /\ pc = "enc_loop"
    /\ i = num_pixels_needed
    /\ imageFile' = File(pixels)
    /\ encResult' = "ok"
    /\ pc' = "idle"
    /\ UNCHANGED <<srcFile, outFile, decResult, encLocals, decLocals>>

(* ----------------------- image_to_file, step by step ------------------- *)

\* Image.open(image_path) raises FileNotFoundError: the handler prints.
DecNotFound ==
    /\ UNCHANGED mainVars
    /\ pc = "idle" /\ decResult = "none"
    /\ mainPc = "running" => encResult # "none"
    /\ ~Exists(imageFile)
    /\ decResult' = "SourceUnavailable"
    /\ UNCHANGED <<pc, files, encResult, encLocals, decLocals>>

\* Load the image and collect the bytes of all its pixels.
DecStart ==
    /\ UNCHANGED mainVars
    /\ pc = "idle" /\ decResult = "none"
    /\ mainPc = "running" => encResult # "none"
    /\ Exists(imageFile)
    /\ extracted_bytes' = ExtractBytes(Content(imageFile))
    /\ pc' = "dec_header"
    /\ UNCHANGED <<files, encResult, decResult, encLocals,
                   original_file_size, restored_data>>

\* The header check and the parse of the file size.
DecHeader ==
    /\ UNCHANGED mainVars
    /\ pc = "dec_header"
    /\ \/ /\ HeaderTooShort(extracted_bytes)
          /\ decResult' = "TruncatedHeader"
          /\ pc' = "idle"
          /\ UNCHANGED original_file_size
       \/ /\ ~HeaderTooShort(extracted_bytes)
          /\ original_file_size' = FromBytesBig(Slice(extracted_bytes, 0, HeaderLen))
          /\ pc' = "dec_slice"
          /\ UNCHANGED decResult
    /\ UNCHANGED <<files, encResult, encLocals, extracted_bytes, restored_data>>

\* The completeness check and the slice of the payload.
DecSlice ==
    /\ UNCHANGED mainVars
    /\ pc = "dec_slice"
    /\ LET file_data_start == HeaderLen
           file_data_end == BigAdd(original_file_size, file_data_start)
       IN  \/ /\ PayloadIncomplete(extracted_bytes, file_data_end)
              /\ decResult' = "TruncatedPayload"
              /\ pc' = "idle"
              /\ UNCHANGED restored_data
           \/ /\ ~PayloadIncomplete(extracted_bytes, file_data_end)
              /\ restored_data' = PayloadSlice(extracted_bytes, file_data_start, file_data_end)
              /\ pc' = "dec_write"
              /\ UNCHANGED decResult
    /\ UNCHANGED <<files, encResult, encLocals, extracted_bytes, original_file_size>>

\* open(output_file_path, 'wb') and file.write(file_data)
DecWrite ==
    /\ UNCHANGED mainVars
    /\ pc = "dec_write"
    /\ outFile' = File(restored_data)
    /\ decResult' = "ok"
    /\ pc' = "idle"
    /\ UNCHANGED <<srcFile, imageFile, encResult, encLocals, decLocals>>

(* --------------------------------- main -------------------------------- *)

\* original_file.write_bytes(test_content); the two calls follow.
MainStart ==
    /\ mainPc = "none"
    /\ pc = "idle" /\ encResult = "none" /\ decResult = "none"
    /\ srcFile' = File(TestContent)
    /\ mainPc' = "running"
    /\ UNCHANGED <<pc, imageFile, outFile, encResult, decResult, encLocals,
                   decLocals, mainResult>>

\* restored_file.read_bytes() and the comparison with test_content; a
\* missing restored file raises FileNotFoundError out of the try block.
MainVerify ==
    /\ mainPc = "running"
    /\ pc = "idle" /\ encResult # "none" /\ decResult # "none"
    /\ mainResult' =
            IF ~Exists(outFile) THEN "FileNotFoundError"
            ELSE IF TestContent = Content(outFile) THEN "verified"
            ELSE "mismatch"
    /\ mainPc' = "cleanup"
    /\ UNCHANGED <<pc, files, encResult, decResult, encLocals, decLocals>>

\* finally: os.remove of each of the three files that exists
MainCleanup ==
    /\ mainPc = "cleanup"
    /\ srcFile' = NoFile
    /\ imageFile' = NoFile
    /\ outFile' = NoFile
    /\ mainPc' = "done"
    /\ UNCHANGED <<pc, encResult, decResult, encLocals, decLocals, mainResult>>

Next ==
    \/ MainStart
    \/ MainVerify
    \/ MainCleanup
    \/ EncNotFound
    \/ EncStart
    \/ EncPutPixel
    \/ EncSave
    \/ DecNotFound
    \/ DecStart
    \/ DecHeader
    \/ DecSlice
    \/ DecWrite

Spec == Init /\ [][Next]_vars

(* ------------------------------ claims --------------------------------- *)

\* file_to_image has read the file and sized the image.
EncSized == Exists(srcFile) /\ (pc = "enc_loop" \/ encResult \in {"ok", "error"})

\* image_to_file has run to its end on an image that exists.
DecDone == pc = "idle" /\ decResult # "none" /\ Exists(imageFile)

\* Byte o (0-based) of the frame followed by zeros.
PaddedFrame(o) == IF o < Len(data_to_encode) THEN data_to_encode[o + 1] ELSE 0

\* The RGB triple that pixel index idx of the packing loop receives.
TripleOf(idx) ==
    <<PaddedFrame(3 * idx), PaddedFrame(3 * idx + 1), PaddedFrame(3 * idx + 2)>>

\* m is the area of a rectangle with positive integer sides.
IsRectArea(m) == \E a \in 1..m : \E b \in 1..m : a * b = m

\* C1: Round-trip identity.  Once file_to_image has run on a readable file
\* holding P and image_to_file has then run on the image path, the output
\* file exists and holds exactly P.
RoundTripIdentity ==
    (pc = "idle" /\ Exists(srcFile) /\ encResult # "none" /\ decResult # "none")
        => outFile = File(Content(srcFile))

\* C2: Wire layout.  In the image file_to_image saves, pixel (x, y) holds as
\* (R, G, B) the bytes at offsets 3*(y*width+x), +1, +2 of the frame followed
\* by zeros.
WireLayout ==
    (encResult = "ok" /\ Exists(imageFile)) =>
        LET img == Content(imageFile)
        IN  \A c \in Coords(img.width, img.height) :
                LET o == 3 * (c[2] * img.width + c[1])
                IN  img.px[c] = <<PaddedFrame(o), PaddedFrame(o + 1), PaddedFrame(o + 2)>>

\* C3: Dimension minimality.  width*height >= min_pixels and no n with
\* min_pixels <= n < width*height is the area of a rectangle.
DimensionMinimality ==
    EncSized =>
        /\ width * height >= num_pixels_needed
        /\ \A m \in num_pixels_needed..(width * height - 1) : ~IsRectArea(m)

\* C4: Truncation detection.  With fewer than 8 bytes of pixel data the
\* decode ends in TruncatedHeader; with at least 8 but fewer than 8+L bytes,
\* L the big-endian value of the first 8, it ends in TruncatedPayload; in
\* both cases nothing is written.
TruncationDetection ==
    DecDone =>
        LET B == ExtractBytes(Content(imageFile))
        IN  /\ Len(B) < HeaderLen =>
                decResult = "TruncatedHeader" /\ outFile = NoFile
            /\ (Len(B) >= HeaderLen
                    /\ BigLess(Limbs(Len(B)),
                               BigAdd(FromBytesBig(SubSeq(B, 1, HeaderLen)), HeaderLen))) =>
                decResult = "TruncatedPayload" /\ outFile = NoFile

\* A decode that stopped at a payload only just too long for the image.
TruncationWitness ==
    /\ DecDone
    /\ decResult = "TruncatedPayload"
    /\ Len(extracted_bytes) >= HeaderLen
    /\ original_file_size = Limbs(Len(extracted_bytes) - HeaderLen + 1)
    /\ outFile = NoFile

\* C5: Padding independence.  When the pixel data B has at least 8+L bytes,
\* L the big-endian value of B[0..8), the decode writes exactly B[8, 8+L):
\* the bytes after it play no part, no trailing payload byte is stripped and
\* no padding byte is appended.
PaddingIndependence ==
    DecDone =>
        LET B == ExtractBytes(Content(imageFile))
        IN  Len(B) >= HeaderLen =>
                LET L == FromBytesBig(SubSeq(B, 1, HeaderLen))
                IN  ~BigLess(Limbs(Len(B)), BigAdd(L, HeaderLen)) =>
                        /\ decResult = "ok"
                        /\ outFile = File(SubSeq(B, HeaderLen + 1, HeaderLen + BigToInt(L)))

\* A decode of a payload ending in 0x00 from an image whose padding holds a
\* nonzero byte.
PaddingWitness ==
    /\ DecDone
    /\ decResult = "ok"
    /\ Exists(outFile)
    /\ Len(Content(outFile)) >= 1
    /\ Content(outFile)[Len(Content(outFile))] = 0
    /\ \E k \in (HeaderLen + BigToInt(original_file_size) + 1)..Len(extracted_bytes) :
            extracted_bytes[k] # 0

\* The image holds every pixel the packing loop had to write.
CompleteGrid(img) ==
    /\ img.width = width /\ img.height = height
    /\ \A idx \in 0..(num_pixels_needed - 1) :
            LET c == PixelCoord(idx, img.width)
            IN  c \in DOMAIN img.px /\ img.px[c] = TripleOf(idx)

\* C6: No partial output.  In the steps of file_to_image and image_to_file
\* (every step but main's own, which change mainPc) a destination file
\* changes only in the last step of a call that succeeds, and then holds the
\* complete result; a call that ends in an error leaves its destination as
\* it was.
NoPartialOutput ==
    [][ mainPc' = mainPc =>
        /\ imageFile' # imageFile =>
            /\ pc = "enc_loop" /\ pc' = "idle" /\ encResult' = "ok"
            /\ imageFile' = File(pixels) /\ CompleteGrid(pixels)
        /\ outFile' # outFile =>
            /\ pc = "dec_write" /\ pc' = "idle" /\ decResult' = "ok"
            /\ outFile' = File(restored_data)
            /\ Limbs(Len(restored_data)) = original_file_size
        /\ (encResult' # encResult /\ encResult' = "ok") => imageFile' = File(pixels)
        /\ (decResult' # decResult /\ decResult' = "ok") => outFile' = File(restored_data)
        /\ (encResult' # encResult /\ encResult' # "ok") => imageFile' = imageFile
        /\ (decResult' # decResult /\ decResult' # "ok") => outFile' = outFile
        /\ pc' # "idle" => (imageFile' = imageFile /\ outFile' = outFile)
      ]_vars

\* An encode that failed after it had put pixels into the grid: no image.
NoPartialOutputWitness ==
    /\ pc = "idle" /\ encResult = "error" /\ i > 0 /\ imageFile = NoFile

\* C7: Frame construction.  The packed sequence is the 8-byte big-endian
\* length of P followed by P: 8 + len(P) bytes, the length field the size of
\* the payload.
FrameConstruction ==
    EncSized =>
        LET P == Content(srcFile)
        IN  /\ Len(data_to_encode) = HeaderLen + Len(P)
            /\ FromBytesBig(SubSeq(data_to_encode, 1, HeaderLen)) = Limbs(Len(P))
            /\ SubSeq(data_to_encode, HeaderLen + 1, Len(data_to_encode)) = P

\* The frame of a 2-byte payload: the last header byte is 2.
FrameWitness ==
    /\ pc = "enc_loop"
    /\ Len(Content(srcFile)) = 2
    /\ data_to_encode[HeaderLen] = 2
    /\ Len(data_to_encode) = 10

\* The largest divisor of n that is at most sqrt(n).
MostSquareWidth(n) ==
    CHOOSE w \in 1..n :
        /\ w * w <= n /\ n % w = 0
        /\ \A v \in 1..n : (v * v <= n /\ n % v = 0) => v <= w

\* C8: Most-square divisor pair.  width is the largest divisor of
\* n = min_pixels in [1, floor(sqrt(n))] and height = n / width; a 2-byte
\* payload gets the grid (2, 2).
MostSquareDivisorPair ==
    EncSized =>
        /\ width = MostSquareWidth(num_pixels_needed)
        /\ height = num_pixels_needed \div width
        /\ Len(Content(srcFile)) = 2 => (width = 2 /\ height = 2)

\* C9: Capacity invariant.  width >= 1, height >= 1 and
\* width*height*3 >= len(Frame) = 8 + len(P).
CapacityInvariant ==
    EncSized =>
        /\ width >= 1 /\ height >= 1
        /\ width * height * BytesPerPixel >= Len(data_to_encode)
        /\ width * height * BytesPerPixel >= HeaderLen + Len(Content(srcFile))

\* The image sized for the empty payload, whose frame is the header alone.
CapacityWitness ==
    /\ pc = "enc_loop"
    /\ Content(srcFile) = <<>>
    /\ Len(data_to_encode) = HeaderLen
    /\ width * height * BytesPerPixel >= HeaderLen

\* C10: In-bounds pixel writes.  Every pixel index of the packing loop maps
\* inside the image, distinct indexes to distinct coordinates, and encoding
\* a readable file never ends in the error branch.
InBoundsPixelWrites ==
    /\ EncSized =>
        /\ \A idx \in 0..(num_pixels_needed - 1) :
                LET c == PixelCoord(idx, width)
                IN  0 <= c[1] /\ c[1] < width /\ 0 <= c[2] /\ c[2] < height
        /\ \A a, b \in 0..(num_pixels_needed - 1) :
                PixelCoord(a, width) = PixelCoord(b, width) => a = b
    /\ encResult # "error"
    /\ (Exists(srcFile) /\ encResult # "none" /\ pc = "idle") => Exists(imageFile)

====
